---- MODULE Spec2Model ----
(***************************************************************************)
(* A model of qemu-launch: the QemuConfig record (src/src/config.rs), its  *)
(* add_* operations that push command-line tokens onto qemu_params, the    *)
(* descriptor table behind append_fds, and build_all, which clones the     *)
(* record and chains the add_* operations in a fixed order; and the Qemu   *)
(* launcher (src/src/qemu.rs) built from a compiled record.                *)
(*                                                                         *)
(* Tokens are strings, built as the code builds them (format!, join(",")). *)
(* A panic (assert_eq!, expect, unimplemented!) is the outcome "panic",    *)
(* an Err(..) value the outcome "err"; after either the consumed record is *)
(* gone and the chain stops.                                               *)
(***************************************************************************)
EXTENDS Integers, Sequences, FiniteSets, TLC

VARIABLES
    cfg,      \* the QemuConfig the caller holds (the receiver of the next call)
    arch,     \* std::env::consts::ARCH of the build
    last,     \* the last operation: its name, argument, receiver and outcome
    nops,     \* number of builder-chain operations applied to cfg so far
    issued,   \* every offset append_fds has returned for cfg, in order
    runs,     \* the build_all calls made so far, oldest first
    qemu      \* the Qemu launcher, once built, and the launch calls made on it

vars == <<cfg, arch, last, nops, issued, runs, qemu>>

-----------------------------------------------------------------------------
(* Bounds of the model *)

\* builder-chain operations applied to one record
MaxOps == 2
\* configuration domains a loaded document populates (besides the full one)
MaxSet == 2
\* largest value of an SMP field in the exhaustive SMP specification
MaxCpus == 4
\* launch calls made on one launcher
MaxLaunches == 2

-----------------------------------------------------------------------------
(* Helpers: Vec<String>::join and prefix order on token sequences *)

RECURSIVE join(_, _)
join(parts, sep) ==
    IF parts = <<>> THEN ""
    ELSE IF Len(parts) = 1 THEN parts[1]
    ELSE parts[1] \o sep \o join(Tail(parts), sep)

\* cond ? <<x>> : <<>>  (a conditional Vec::push)
PushIf(cond, x) == IF cond THEN <<x>> ELSE <<>>

IsPrefix(s, t) == Len(s) <= Len(t) /\ SubSeq(t, 1, Len(s)) = s

Suffix(t, n) == SubSeq(t, n + 1, Len(t))

-----------------------------------------------------------------------------
(* Constants of src/src/types.rs *)

MIGRATION_FD == "fd"
MIGRATION_EXEC == "exec"
MIGRATION_DEFER == "defer"
MACHINE_TYPE_MICROVM == "microvm"

\* Uuid::nil() as Uuid::to_string prints it
NilUuid == "00000000-0000-0000-0000-000000000000"
\* values Uuid::new_v4() may return (random, never nil)
FreshUuids == {"6f1c0d9e-0000-4000-8000-000000000001",
               "b2d4a7c3-0000-4000-8000-000000000002"}

-----------------------------------------------------------------------------
(* Default values of the domain structs (#[derive(Default)]) *)

DefaultMachine == [machine_type |-> "", acceleration |-> "", options |-> ""]
DefaultRtc == [base |-> "", clock |-> "", drift_fix |-> ""]
DefaultKernel == [path |-> "", initrd_path |-> "", params |-> ""]
DefaultSmp == [cpus |-> 0, cores |-> 0, threads |-> 0, sockets |-> 0, max_cpus |-> 0]
DefaultMemory == [size |-> "", slots |-> 0, max_memory |-> "", path |-> ""]
DefaultKnobs ==
    [no_user_config |-> FALSE, no_defaults |-> FALSE, no_graphic |-> FALSE,
     demonized |-> FALSE, hugepages |-> FALSE, mem_prealloc |-> FALSE,
     file_backed_mem |-> FALSE, mem_shared |-> FALSE, mlock |-> FALSE,
     stopped |-> FALSE, no_reboot |-> FALSE, no_shutdown |-> FALSE,
     iommu_platform |-> FALSE]
DefaultIncoming == [migration_type |-> "", fd |-> 0, exec |-> ""]

\* QemuConfig::builder(): every field at its default
builder ==
    [bin_path |-> "", uid |-> 0, gid |-> 0, groups |-> <<>>,
     name |-> "", uuid |-> "", cpu_model |-> "", seccomp_sandbox |-> "",
     machine |-> DefaultMachine, qmp_sockets |-> <<>>, devices |-> <<>>,
     rtc |-> DefaultRtc, vga |-> "", kernel |-> DefaultKernel,
     memory |-> DefaultMemory, smp |-> DefaultSmp, global_params |-> "",
     knobs |-> DefaultKnobs, bios |-> "", no_graphic |-> FALSE,
     pflashs |-> <<>>, incoming |-> DefaultIncoming, fds |-> <<>>,
     fw_cfgs |-> <<>>, io_threads |-> <<>>, pid_file |-> "", log_file |-> "",
     qemu_params |-> <<>>]

\* variant: the tokens are inserted at the front of the sequence
Push_front(self, toks) == [self EXCEPT !.qemu_params = toks \o @]

\* self.qemu_params.push(..) for each token of toks, in order
Push(self, toks) == [self EXCEPT !.qemu_params = @ \o toks]

-----------------------------------------------------------------------------
(* Validity rules of src/src/types.rs *)

\* variant: either field valid is enough (|| for &&)
RtcValid_either(rtc) ==
    LET clock_valid == rtc.clock = "host" \/ rtc.clock = "rt" \/ rtc.clock = "vm"
        drift_fix_valid == rtc.drift_fix = "slew" \/ rtc.drift_fix = "none"
    IN clock_valid \/ drift_fix_valid

RtcValid(rtc) ==
    LET clock_valid == rtc.clock = "host" \/ rtc.clock = "rt" \/ rtc.clock = "vm"
        drift_fix_valid == rtc.drift_fix = "slew" \/ rtc.drift_fix = "none"
    IN clock_valid /\ drift_fix_valid

QmpSocketValid(socket) ==
    IF socket.socket_type = "" \/ socket.name = "" THEN FALSE
    ELSE IF socket.socket_type # "unix" THEN FALSE
    ELSE TRUE

FwCfgValid(fwcfg) ==
    IF fwcfg.name = "" THEN FALSE
    ELSE IF fwcfg.file # "" /\ fwcfg.str # "" THEN FALSE
    ELSE IF fwcfg.file = "" /\ fwcfg.str = "" THEN FALSE
    ELSE TRUE

\* FwCfg::qemu_params: the pair it pushes
FwCfgParams(fwcfg) ==
    <<"-fw_cfg",
      join(PushIf(fwcfg.name # "", "name=" \o fwcfg.name)
           \o PushIf(fwcfg.file # "", "file=" \o fwcfg.file)
           \o PushIf(fwcfg.str # "", "string=" \o fwcfg.str), ",")>>

-----------------------------------------------------------------------------
(* The add_* operations of impl QemuConfig.  Each takes the record by      *)
(* value and returns it; only add_smp and add_devices can fail.            *)

add_seccomp(self, seccomp_sandbox) ==
    IF seccomp_sandbox # "" THEN Push(self, <<"-sandbox", seccomp_sandbox>>) ELSE self

add_name(self, name) ==
    IF name # "" THEN Push(self, <<"-name", name>>) ELSE self

add_machine(self, machine) ==
    IF machine.machine_type # "" THEN
        LET machine_params ==
                <<machine.machine_type>>
                \o PushIf(machine.acceleration # "", "accel=" \o machine.acceleration)
                \o PushIf(machine.options # "", machine.options)
        IN Push(self, <<"-machine", join(machine_params, ",")>>)
    ELSE self

add_cpu_model(self, cpu_model) ==
    IF cpu_model # "" THEN Push(self, <<"-cpu", cpu_model>>) ELSE self

\* Device::valid of every variant in src/src/device.rs is unimplemented!()
DeviceValid(dev) == "panic"

\* Device::set_qemu_params of every variant is unimplemented!() as well
DeviceSetQemuParams(dev, self) == [outcome |-> "panic", cfg |-> self]

RECURSIVE add_devices(_, _)
add_devices(self, devices) ==
    IF devices = <<>> THEN [outcome |-> "ok", cfg |-> self]
    ELSE LET dev == Head(devices)
             v == DeviceValid(dev)
         IN IF v = "panic" THEN [outcome |-> "panic", cfg |-> self]
            ELSE IF v = "true" THEN
                LET r == DeviceSetQemuParams(dev, self)
                IN IF r.outcome = "ok" THEN add_devices(r.cfg, Tail(devices)) ELSE r
            ELSE add_devices(self, Tail(devices))

add_uuid(self, uuid) ==
    IF uuid # NilUuid THEN Push(self, <<"-uuid", uuid>>) ELSE self

\* variant: the argument is also stored in the record
add_memory_storing(self, memory) ==
    IF memory.size # "" THEN
        LET memory_params ==
                <<memory.size>>
                \o PushIf(memory.slots > 0, "slots=" \o ToString(memory.slots))
                \o PushIf(memory.max_memory # "", "maxmem=" \o memory.max_memory)
        IN [Push(self, <<"-m", join(memory_params, ",")>>) EXCEPT !.memory = memory]
    ELSE self

add_memory(self, memory) ==
    IF memory.size # "" THEN
        LET memory_params ==
                <<memory.size>>
                \o PushIf(memory.slots > 0, "slots=" \o ToString(memory.slots))
                \o PushIf(memory.max_memory # "", "maxmem=" \o memory.max_memory)
        IN Push(self, <<"-m", join(memory_params, ",")>>)
    ELSE self

\* variant: sockets= is pushed before threads=
add_smp_sockets_first(self, smp) ==
    IF smp.cpus > 0 THEN
        IF smp.max_cpus > 0 /\ smp.max_cpus < smp.cpus THEN
            [outcome |-> "err", cfg |-> self]
        ELSE IF smp.sockets * smp.cores * smp.threads # smp.max_cpus THEN
            [outcome |-> "panic", cfg |-> self]
        ELSE
            LET smp_params ==
                    <<ToString(smp.cpus)>>
                    \o PushIf(smp.cores > 0, "cores=" \o ToString(smp.cores))
                    \o PushIf(smp.sockets > 0, "sockets=" \o ToString(smp.sockets))
                    \o PushIf(smp.threads > 0, "threads=" \o ToString(smp.threads))
                    \o PushIf(smp.max_cpus > 0, "maxcpus=" \o ToString(smp.max_cpus))
            IN [outcome |-> "ok",
                cfg |-> Push(self, <<"-smp", join(smp_params, ",")>>)]
    ELSE [outcome |-> "ok", cfg |-> self]

\* Result<Self>: "err" is Err(anyhow!(..)), "panic" the failed assert_eq!.
\* The u32 product cannot wrap for the field values the model draws.
add_smp(self, smp) ==
    IF smp.cpus > 0 THEN
        IF smp.max_cpus > 0 /\ smp.max_cpus < smp.cpus THEN
            [outcome |-> "err", cfg |-> self]
        ELSE IF smp.sockets * smp.cores * smp.threads # smp.max_cpus THEN
            [outcome |-> "panic", cfg |-> self]
        ELSE
            LET smp_params ==
                    <<ToString(smp.cpus)>>
                    \o PushIf(smp.cores > 0, "cores=" \o ToString(smp.cores))
                    \o PushIf(smp.threads > 0, "threads=" \o ToString(smp.threads))
                    \o PushIf(smp.sockets > 0, "sockets=" \o ToString(smp.sockets))
                    \o PushIf(smp.max_cpus > 0, "maxcpus=" \o ToString(smp.max_cpus))
            IN [outcome |-> "ok",
                cfg |-> Push(self, <<"-smp", join(smp_params, ",")>>)]
    ELSE [outcome |-> "ok", cfg |-> self]

add_global_params(self, global_params) ==
    IF global_params # "" THEN Push(self, <<"-global", global_params>>) ELSE self

\* variant: -initrd and -append are not nested under the kernel path
add_kernel_unnested(self, kernel) ==
    Push(self,
         (IF kernel.path # "" THEN <<"-kernel", kernel.path>> ELSE <<>>)
         \o (IF kernel.initrd_path # "" THEN <<"-initrd", kernel.initrd_path>> ELSE <<>>)
         \o (IF kernel.params # "" THEN <<"-append", kernel.params>> ELSE <<>>))

add_kernel(self, kernel) ==
    IF kernel.path # "" THEN
        Push(self,
             <<"-kernel", kernel.path>>
             \o (IF kernel.initrd_path # "" THEN <<"-initrd", kernel.initrd_path>> ELSE <<>>)
             \o (IF kernel.params # "" THEN <<"-append", kernel.params>> ELSE <<>>))
    ELSE self

add_bios(self, bios) ==
    IF bios # "" THEN Push(self, <<"-bios", bios>>) ELSE self

add_no_graphic(self, no_graphic) ==
    IF no_graphic THEN Push(self, <<"-nographic">>) ELSE self

\* pushes the joined value only: the code pushes no flag token before it
add_rtc(self, rtc) ==
    IF ~RtcValid(rtc) THEN self
    ELSE
        LET rtc_params ==
                <<"base=" \o rtc.base>>
                \o PushIf(rtc.drift_fix # "", "driftfix=" \o rtc.drift_fix)
                \o PushIf(rtc.clock # "", "clock=" \o rtc.clock)
        IN Push(self, <<join(rtc_params, ",")>>)

RECURSIVE add_qmp_sockets(_, _)
add_qmp_sockets(self, qmp_sockets) ==
    IF qmp_sockets = <<>> THEN self
    ELSE LET socket == Head(qmp_sockets) IN
         IF ~QmpSocketValid(socket) THEN add_qmp_sockets(self, Tail(qmp_sockets))
         ELSE
            LET qmp_params ==
                    <<socket.socket_type \o ":" \o socket.name>>
                    \o (IF socket.is_server
                        THEN <<"server=on">> \o PushIf(socket.no_wait, "wait=off")
                        ELSE <<>>)
            IN add_qmp_sockets(Push(self, <<"-qmp", join(qmp_params, ",")>>),
                               Tail(qmp_sockets))

add_vga(self, vga) ==
    IF vga # "" THEN Push(self, <<"-vga", vga>>) ELSE self

\* variant: the microvm exclusion is dropped
is_dimm_supported_any_machine(self) ==
    arch \in {"x86_64", "powerpc64", "aarch64", "x86"}

is_dimm_supported(self) ==
    IF arch \in {"x86_64", "powerpc64", "aarch64", "x86"}
    THEN self.machine.machine_type # MACHINE_TYPE_MICROVM
    ELSE FALSE

\* variant: file_backed_mem with a path is tested before hugepages
add_knobs_memory_file_first(self, knobs) ==
    IF self.memory.size = "" THEN self
    ELSE
        LET dimm_name == "dimm1"
            obj0 == IF knobs.file_backed_mem /\ self.memory.path # "" THEN
                        "memory-backend-file,id=" \o dimm_name \o ",size="
                        \o self.memory.size \o ",mem_path=" \o self.memory.path
                    ELSE IF knobs.hugepages THEN
                        "memory-backend-file,id=" \o dimm_name \o ",size="
                        \o self.memory.size \o ",mem-path=/dev/hugepages"
                    ELSE
                        "memory-backend-file,id=" \o dimm_name \o ",size="
                        \o self.memory.size
            numa_mem_params == "node,memdev=" \o dimm_name
            obj1 == IF knobs.mem_shared THEN obj0 \o ",share=on" ELSE obj0
            obj_mem_params == IF knobs.mem_prealloc THEN obj1 \o ",prealloc=on" ELSE obj1
            withObject == Push(self, <<"-object", obj_mem_params>>)
        IN IF is_dimm_supported(withObject)
           THEN Push(withObject, <<"-numa", numa_mem_params>>)
           ELSE Push(withObject, <<"-machine", "memory-backend=" \o dimm_name>>)

\* reads the record's own memory and machine fields, not an argument
add_knobs_memory(self, knobs) ==
    IF self.memory.size = "" THEN self
    ELSE
        LET dimm_name == "dimm1"
            obj0 == IF knobs.hugepages THEN
                        "memory-backend-file,id=" \o dimm_name \o ",size="
                        \o self.memory.size \o ",mem-path=/dev/hugepages"
                    ELSE IF knobs.file_backed_mem /\ self.memory.path # "" THEN
                        "memory-backend-file,id=" \o dimm_name \o ",size="
                        \o self.memory.size \o ",mem_path=" \o self.memory.path
                    ELSE
                        "memory-backend-file,id=" \o dimm_name \o ",size="
                        \o self.memory.size
            numa_mem_params == "node,memdev=" \o dimm_name
            obj1 == IF knobs.mem_shared THEN obj0 \o ",share=on" ELSE obj0
            obj_mem_params == IF knobs.mem_prealloc THEN obj1 \o ",prealloc=on" ELSE obj1
            withObject == Push(self, <<"-object", obj_mem_params>>)
        IN IF is_dimm_supported(withObject)
           THEN Push(withObject, <<"-numa", numa_mem_params>>)
           ELSE Push(withObject, <<"-machine", "memory-backend=" \o dimm_name>>)

add_knobs(self, knobs) ==
    LET head == Push(self,
                     PushIf(knobs.no_user_config, "-no-user-config")
                     \o PushIf(knobs.no_reboot, "--no-reboot")
                     \o PushIf(knobs.no_graphic, "-nographic")
                     \o PushIf(knobs.no_defaults, "-nodefaults")
                     \o PushIf(knobs.no_shutdown, "--no-shutdown")
                     \o PushIf(knobs.demonized, "-daemonize"))
        mem == add_knobs_memory(head, knobs)
    IN Push(mem,
            (IF knobs.mlock THEN <<"-overcommit", "mem-lock=on">> ELSE <<>>)
            \o PushIf(knobs.stopped, "-S"))

RECURSIVE add_io_threads(_, _)
add_io_threads(self, io_threads) ==
    IF io_threads = <<>> THEN self
    ELSE LET thread == Head(io_threads) IN
         add_io_threads(
            IF thread.id # "" THEN Push(self, <<"-object", "iothread,id=" \o thread.id>>)
            ELSE self,
            Tail(io_threads))

\* variant: offsets restart at 3 in every call (old_length dropped)
append_fds_restart(self, fds) ==
    [cfg |-> [self EXCEPT !.fds = @ \o fds],
     int_fds |-> [i \in 1..Len(fds) |-> (i - 1) + 3]]

\* (&mut self, fds) -> Vec<i32>: the record with the descriptors appended
\* and the offsets returned
append_fds(self, fds) ==
    LET old_length == Len(self.fds)
    IN [cfg |-> [self EXCEPT !.fds = @ \o fds],
        int_fds |-> [i \in 1..Len(fds) |-> old_length + (i - 1) + 3]]

\* variant: the raw descriptor, not its offset, is printed
add_incoming_raw_fd(self, incoming) ==
    IF incoming.migration_type = MIGRATION_EXEC THEN
        Push(self, <<"-S", "-incoming", "exec:" \o incoming.exec>>)
    ELSE IF incoming.migration_type = MIGRATION_FD THEN
        LET r == append_fds(self, <<incoming.fd>>)
        IN Push(r.cfg, <<"-S", "-incoming", "fd:" \o ToString(incoming.fd)>>)
    ELSE IF incoming.migration_type = MIGRATION_DEFER THEN
        Push(self, <<"-S", "-incoming", "defer">>)
    ELSE self

add_incoming(self, incoming) ==
    IF incoming.migration_type = MIGRATION_EXEC THEN
        Push(self, <<"-S", "-incoming", "exec:" \o incoming.exec>>)
    ELSE IF incoming.migration_type = MIGRATION_FD THEN
        LET r == append_fds(self, <<incoming.fd>>)
        IN Push(r.cfg, <<"-S", "-incoming", "fd:" \o ToString(r.int_fds[1])>>)
    ELSE IF incoming.migration_type = MIGRATION_DEFER THEN
        Push(self, <<"-S", "-incoming", "defer">>)
    ELSE self

RECURSIVE add_pflash_param(_, _)
add_pflash_param(self, pflashs) ==
    IF pflashs = <<>> THEN self
    ELSE add_pflash_param(Push(self, <<"-pflash", Head(pflashs)>>), Tail(pflashs))

add_pid_file(self, pid_file) ==
    IF pid_file # "" THEN Push(self, <<"-pidfile", pid_file>>) ELSE self

add_log_file(self, log_file) ==
    IF log_file # "" THEN Push(self, <<"-D", log_file>>) ELSE self

RECURSIVE add_fwcfg(_, _)
add_fwcfg(self, fw_cfgs) ==
    IF fw_cfgs = <<>> THEN self
    ELSE LET fwcfg == Head(fw_cfgs) IN
         add_fwcfg(IF FwCfgValid(fwcfg) THEN Push(self, FwCfgParams(fwcfg)) ELSE self,
                   Tail(fw_cfgs))

\* variant: the copy starts with an empty output buffer
clone_fresh_params(self) == [self EXCEPT !.devices = <<>>, !.qemu_params = <<>>]

\* variant: the copy keeps the device list
clone_with_devices(self) == self

\* impl Clone for QemuConfig: every field copied except devices
clone(self) == [self EXCEPT !.devices = <<>>]

\* variant: add_memory is chained before add_machine
build_all_memory_first(self, uuid) ==
    LET c01 == add_cpu_model(clone(self), self.cpu_model)
        c02 == add_bios(c01, self.bios)
        c03 == add_kernel(c02, self.kernel)
        c04 == add_memory(c03, self.memory)
        c05 == add_machine(c04, self.machine)
        c06 == add_name(c05, self.name)
        c07 == add_seccomp(c06, self.seccomp_sandbox)
        c08 == add_uuid(c07, uuid)
        c09 == add_no_graphic(c08, self.no_graphic)
        c10 == add_rtc(c09, self.rtc)
        c11 == add_qmp_sockets(c10, self.qmp_sockets)
        c12 == add_vga(c11, self.vga)
        c13 == add_io_threads(c12, self.io_threads)
        c14 == add_incoming(c13, self.incoming)
        c15 == add_pflash_param(c14, self.pflashs)
        c16 == add_pid_file(c15, self.pid_file)
        c17 == add_log_file(c16, self.log_file)
        c18 == add_global_params(c17, self.global_params)
        c19 == add_knobs(c18, self.knobs)
        r20 == add_smp(c19, self.smp)
    IN IF r20.outcome # "ok" THEN [outcome |-> "panic", cfg |-> self]
       ELSE add_devices(r20.cfg, self.devices)

\* build_all(&self) with the value Uuid::new_v4() returned.  The chain is
\* applied to the clone, its arguments are read from self; .expect turns
\* add_smp's Err into a panic.
build_all(self, uuid) ==
    LET c01 == add_cpu_model(clone(self), self.cpu_model)
        c02 == add_bios(c01, self.bios)
        c03 == add_kernel(c02, self.kernel)
        c04 == add_machine(c03, self.machine)
        c05 == add_memory(c04, self.memory)
        c06 == add_name(c05, self.name)
        c07 == add_seccomp(c06, self.seccomp_sandbox)
        c08 == add_uuid(c07, uuid)
        c09 == add_no_graphic(c08, self.no_graphic)
        c10 == add_rtc(c09, self.rtc)
        c11 == add_qmp_sockets(c10, self.qmp_sockets)
        c12 == add_vga(c11, self.vga)
        c13 == add_io_threads(c12, self.io_threads)
        c14 == add_incoming(c13, self.incoming)
        c15 == add_pflash_param(c14, self.pflashs)
        c16 == add_pid_file(c15, self.pid_file)
        c17 == add_log_file(c16, self.log_file)
        c18 == add_global_params(c17, self.global_params)
        c19 == add_knobs(c18, self.knobs)
        r20 == add_smp(c19, self.smp)
    IN IF r20.outcome # "ok" THEN [outcome |-> "panic", cfg |-> self]
       ELSE add_devices(r20.cfg, self.devices)

-----------------------------------------------------------------------------
(* The launcher, src/src/qemu.rs *)

\* no Qemu value exists yet
NoQemu == [built |-> FALSE, bin_path |-> "", args |-> <<>>, launches |-> <<>>,
           children |-> 0]

\* Qemu::new: the two fields, nothing launched
Qemu_new(bin_path, args) ==
    [built |-> TRUE, bin_path |-> bin_path, args |-> args, launches |-> <<>>,
     children |-> 0]

\* Qemu::from_config(config) with the value Uuid::new_v4() returned inside
\* build_all: the launcher takes bin_path and qemu_params of the compiled
\* record; a panic of build_all leaves no launcher
from_config(config, uuid) ==
    LET r == build_all(config, uuid)
    IN IF r.outcome = "ok"
       THEN [outcome |-> "ok", qemu |-> Qemu_new(r.cfg.bin_path, r.cfg.qemu_params)]
       ELSE [outcome |-> "panic", qemu |-> NoQemu]

\* Command::new(bin_path).args(args).spawn(): Ok(child) when the operating
\* system finds an executable at bin_path (found), Err otherwise; an empty
\* program name is never found
spawn(bin_path, found) == IF found /\ bin_path # "" THEN "ok" ELSE "err"

\* Qemu::launch(&self): .expect on the spawn result panics on Err; on Ok the
\* Child is dropped without wait() and Ok(()) is returned.  Each call is
\* recorded with the fields it was made on.
launch(self, found) ==
    LET child == spawn(self.bin_path, found)
    IN [self EXCEPT
          !.launches = Append(@, [outcome |-> IF child = "ok" THEN "ok" ELSE "panic",
                                  bin_path |-> self.bin_path,
                                  args |-> self.args, waited |-> FALSE]),
          !.children = IF child = "ok" THEN @ + 1 ELSE @]

-----------------------------------------------------------------------------
(* Input values.  Each list holds the non-default values a field or an     *)
(* argument takes; the default value is added where an argument is drawn.  *)

Range(seq) == {seq[i] : i \in 1..Len(seq)}

Archs == {"x86_64", "riscv64"}

NameCases == <<"vm0">>
UuidFieldCases == <<"c0ffee00-0000-4000-8000-00000000000a">>
CpuModelCases == <<"host">>
SeccompCases == <<"on">>
VgaCases == <<"std">>
GlobalCases == <<"kvm-pit.lost_tick_policy=discard">>
BiosCases == <<"bios.bin">>
PidFileCases == <<"/run/vm0.pid">>
LogFileCases == <<"/var/log/vm0.log">>
NoGraphicCases == <<TRUE>>
ParamsCases == << <<"-enable-kvm">> >>
FdsCases == << <<5>> >>

MachineCases ==
    <<[machine_type |-> "q35", acceleration |-> "kvm", options |-> "usb=off"],
      [machine_type |-> MACHINE_TYPE_MICROVM, acceleration |-> "", options |-> ""],
      [machine_type |-> "", acceleration |-> "kvm", options |-> "usb=off"]>>

MemoryCases ==
    <<[size |-> "2G", slots |-> 0, max_memory |-> "", path |-> ""],
      [size |-> "2G", slots |-> 2, max_memory |-> "4G", path |-> "/dev/shm"],
      [size |-> "", slots |-> 2, max_memory |-> "4G", path |-> "/dev/shm"]>>

KernelCases ==
    <<[path |-> "vmlinuz", initrd_path |-> "initrd.img", params |-> "console=ttyS0"],
      [path |-> "vmlinuz", initrd_path |-> "", params |-> ""],
      [path |-> "", initrd_path |-> "initrd.img", params |-> "console=ttyS0"]>>

SmpCases ==
    <<[cpus |-> 2, cores |-> 1, threads |-> 1, sockets |-> 2, max_cpus |-> 2],
      [cpus |-> 2, cores |-> 0, threads |-> 0, sockets |-> 0, max_cpus |-> 0],
      [cpus |-> 4, cores |-> 0, threads |-> 0, sockets |-> 0, max_cpus |-> 2],
      [cpus |-> 2, cores |-> 1, threads |-> 1, sockets |-> 2, max_cpus |-> 4],
      [cpus |-> 2, cores |-> 0, threads |-> 0, sockets |-> 0, max_cpus |-> 4],
      [cpus |-> 0, cores |-> 1, threads |-> 1, sockets |-> 2, max_cpus |-> 4]>>

RtcCases ==
    <<[base |-> "utc", clock |-> "host", drift_fix |-> "slew"],
      [base |-> "utc", clock |-> "bogus", drift_fix |-> "slew"],
      [base |-> "", clock |-> "vm", drift_fix |-> "none"],
      [base |-> "utc", clock |-> "rt", drift_fix |-> ""]>>

QmpServer == [socket_type |-> "unix", name |-> "/run/qmp.sock",
              is_server |-> TRUE, no_wait |-> TRUE]
QmpClient == [socket_type |-> "unix", name |-> "/run/qmp2.sock",
              is_server |-> FALSE, no_wait |-> TRUE]
QmpTcp == [socket_type |-> "tcp", name |-> "localhost:4444",
           is_server |-> TRUE, no_wait |-> FALSE]
QmpCases == << <<QmpServer>>, <<QmpTcp, QmpClient>> >>

Knob(on) == [k \in DOMAIN DefaultKnobs |-> k \in on]
KnobsCases ==
    <<Knob({"hugepages", "mem_shared"}),
      Knob({"file_backed_mem", "mem_prealloc"}),
      Knob({"no_user_config", "no_reboot", "no_graphic", "no_defaults",
            "no_shutdown", "demonized", "mlock", "stopped"}),
      Knob({"hugepages", "file_backed_mem", "mem_shared", "mem_prealloc", "mlock"}),
      Knob({"iommu_platform"})>>

IoThreadCases == << <<[id |-> "iothread0"]>>, <<[id |-> ""], [id |-> "iothread1"]>> >>

IncomingCases ==
    <<[migration_type |-> MIGRATION_FD, fd |-> 7, exec |-> ""],
      [migration_type |-> MIGRATION_EXEC, fd |-> 0, exec |-> "cat /tmp/vm.img"],
      [migration_type |-> MIGRATION_DEFER, fd |-> 0, exec |-> ""],
      [migration_type |-> "tcp", fd |-> 7, exec |-> "cat /tmp/vm.img"]>>

PflashCases == << <<"OVMF_CODE.fd">>, <<"OVMF_CODE.fd", "OVMF_VARS.fd">> >>

FwCfgCases ==
    << <<[name |-> "opt/a", file |-> "/tmp/a", str |-> ""]>>,
       <<[name |-> "opt/b", file |-> "/tmp/b", str |-> "text"],
         [name |-> "", file |-> "/tmp/c", str |-> ""],
         [name |-> "opt/d", file |-> "", str |-> "text"]>> >>

\* the Device variants of src/src/device.rs that add_devices may be handed
DeviceCases == << <<"NetDevice">>, <<"Object", "FSDevice">> >>

\* descriptor lists handed to append_fds
AppendCases == << <<7>>, <<9, 7>> >>

-----------------------------------------------------------------------------
(* Loading a document: from_toml.  A document gives some fields a value    *)
(* (here: the index of one of the cases above); #[serde(default)] leaves    *)
(* the others at their default, and devices is never deserialized.         *)

FieldNames ==
    {"name", "uuid", "cpu_model", "seccomp_sandbox", "machine", "qmp_sockets",
     "rtc", "vga", "kernel", "memory", "smp", "global_params", "knobs", "bios",
     "no_graphic", "pflashs", "incoming", "fds", "fw_cfgs", "io_threads",
     "pid_file", "log_file", "qemu_params"}

CasesOf(f) ==
    CASE f = "name" -> NameCases
      [] f = "uuid" -> UuidFieldCases
      [] f = "cpu_model" -> CpuModelCases
      [] f = "seccomp_sandbox" -> SeccompCases
      [] f = "machine" -> MachineCases
      [] f = "qmp_sockets" -> QmpCases
      [] f = "rtc" -> RtcCases
      [] f = "vga" -> VgaCases
      [] f = "kernel" -> KernelCases
      [] f = "memory" -> MemoryCases
      [] f = "smp" -> SmpCases
      [] f = "global_params" -> GlobalCases
      [] f = "knobs" -> KnobsCases
      [] f = "bios" -> BiosCases
      [] f = "no_graphic" -> NoGraphicCases
      [] f = "pflashs" -> PflashCases
      [] f = "incoming" -> IncomingCases
      [] f = "fds" -> FdsCases
      [] f = "fw_cfgs" -> FwCfgCases
      [] f = "io_threads" -> IoThreadCases
      [] f = "pid_file" -> PidFileCases
      [] f = "log_file" -> LogFileCases
      [] f = "qemu_params" -> ParamsCases

\* the value a document doc gives field f, or the field's default
Field(doc, f) == IF f \in DOMAIN doc THEN CasesOf(f)[doc[f]] ELSE builder[f]

from_toml(doc) ==
    [f \in DOMAIN builder |-> IF f \in FieldNames THEN Field(doc, f) ELSE builder[f]]

RECURSIVE DocsOver(_)
\* every document that populates exactly the fields of S
DocsOver(S) ==
    IF S = {} THEN {<<>>}
    ELSE LET f == CHOOSE x \in S : TRUE
         IN {(f :> i) @@ d : i \in 1..Len(CasesOf(f)), d \in DocsOver(S \ {f})}

RECURSIVE FieldSetsUpTo(_)
FieldSetsUpTo(k) ==
    IF k = 0 THEN {{}}
    ELSE LET P == FieldSetsUpTo(k - 1)
         IN P \cup {s \cup {f} : s \in P, f \in FieldNames}

\* a fully populated document: the first case of every field
FullDoc == [f \in FieldNames |-> 1]

TomlDocs == UNION {DocsOver(S) : S \in FieldSetsUpTo(MaxSet)} \cup {FullDoc}

\* the documents that populate at most one domain, and the full one
SmallDocs == UNION {DocsOver(S) : S \in FieldSetsUpTo(1)} \cup {FullDoc}

\* the documents over the memory and machine domains
KnobDocs == UNION {DocsOver(S) : S \in SUBSET {"memory", "machine"}}

\* the bin_path key of a document: absent, or the path of an emulator
BinPathCases == <<"/usr/bin/qemu-system-x86_64">>

\* records a builder chain starts from: builder(), or a loaded document
ChainDocs ==
    {<<>>,
     [memory |-> 2, machine |-> 1],
     [memory |-> 1, machine |-> 2, fds |-> 1, qemu_params |-> 1],
     [memory |-> 3, machine |-> 3]}

-----------------------------------------------------------------------------
(* State machine *)

NoOp == [op |-> "none", arg |-> <<>>, pre |-> builder, outcome |-> "ok"]

\* nothing has panicked or returned Err: the caller still holds a record
Live ==
    /\ last.outcome = "ok"
    /\ \A i \in 1..Len(runs) : runs[i].outcome = "ok"

InitWith(docs) ==
    /\ \E doc \in docs : cfg = from_toml(doc)
    /\ arch \in Archs
    /\ last = NoOp
    /\ nops = 0
    /\ issued = <<>>
    /\ runs = <<>>
    /\ qemu = NoQemu

\* the caller holds a record and may apply one more operation to it
CanChain == Live /\ nops < MaxOps /\ runs = <<>>

\* one step of a builder chain: cfg = cfg.op(arg), r the call's result
Chain(op, arg, r) ==
    /\ cfg' = IF r.outcome = "ok" THEN r.cfg ELSE cfg
    /\ last' = [op |-> op, arg |-> arg, pre |-> cfg, outcome |-> r.outcome]
    /\ nops' = nops + 1
    /\ UNCHANGED <<arch, runs, qemu>>

Ok(c) == [outcome |-> "ok", cfg |-> c]

AddSeccomp ==
    /\ CanChain
    /\ \E x \in {""} \cup Range(SeccompCases) :
        Chain("add_seccomp", x, Ok(add_seccomp(cfg, x))) /\ UNCHANGED issued

AddName ==
    /\ CanChain
    /\ \E x \in {""} \cup Range(NameCases) :
        Chain("add_name", x, Ok(add_name(cfg, x))) /\ UNCHANGED issued

AddMachine ==
    /\ CanChain
    /\ \E x \in {DefaultMachine} \cup Range(MachineCases) :
        Chain("add_machine", x, Ok(add_machine(cfg, x))) /\ UNCHANGED issued

AddCpuModel ==
    /\ CanChain
    /\ \E x \in {""} \cup Range(CpuModelCases) :
        Chain("add_cpu_model", x, Ok(add_cpu_model(cfg, x))) /\ UNCHANGED issued

AddDevices ==
    /\ CanChain
    /\ \E x \in {<<>>} \cup Range(DeviceCases) :
        Chain("add_devices", x, add_devices(cfg, x)) /\ UNCHANGED issued

AddUuid ==
    /\ CanChain
    /\ \E x \in {NilUuid} \cup FreshUuids :
        Chain("add_uuid", x, Ok(add_uuid(cfg, x))) /\ UNCHANGED issued

AddMemory ==
    /\ CanChain
    /\ \E x \in {DefaultMemory} \cup Range(MemoryCases) :
        Chain("add_memory", x, Ok(add_memory(cfg, x))) /\ UNCHANGED issued

AddSmp ==
    /\ CanChain
    /\ \E x \in {DefaultSmp} \cup Range(SmpCases) :
        Chain("add_smp", x, add_smp(cfg, x)) /\ UNCHANGED issued

AddGlobalParams ==
    /\ CanChain
    /\ \E x \in {""} \cup Range(GlobalCases) :
        Chain("add_global_params", x, Ok(add_global_params(cfg, x))) /\ UNCHANGED issued

AddKernel ==
    /\ CanChain
    /\ \E x \in {DefaultKernel} \cup Range(KernelCases) :
        Chain("add_kernel", x, Ok(add_kernel(cfg, x))) /\ UNCHANGED issued

AddBios ==
    /\ CanChain
    /\ \E x \in {""} \cup Range(BiosCases) :
        Chain("add_bios", x, Ok(add_bios(cfg, x))) /\ UNCHANGED issued

AddNoGraphic ==
    /\ CanChain
    /\ \E x \in BOOLEAN :
        Chain("add_no_graphic", x, Ok(add_no_graphic(cfg, x))) /\ UNCHANGED issued

AddRtc ==
    /\ CanChain
    /\ \E x \in {DefaultRtc} \cup Range(RtcCases) :
        Chain("add_rtc", x, Ok(add_rtc(cfg, x))) /\ UNCHANGED issued

AddQmpSockets ==
    /\ CanChain
    /\ \E x \in {<<>>} \cup Range(QmpCases) :
        Chain("add_qmp_sockets", x, Ok(add_qmp_sockets(cfg, x))) /\ UNCHANGED issued

AddVga ==
    /\ CanChain
    /\ \E x \in {""} \cup Range(VgaCases) :
        Chain("add_vga", x, Ok(add_vga(cfg, x))) /\ UNCHANGED issued

AddKnobs ==
    /\ CanChain
    /\ \E x \in {DefaultKnobs} \cup Range(KnobsCases) :
        Chain("add_knobs", x, Ok(add_knobs(cfg, x))) /\ UNCHANGED issued

AddIoThreads ==
    /\ CanChain
    /\ \E x \in {<<>>} \cup Range(IoThreadCases) :
        Chain("add_io_threads", x, Ok(add_io_threads(cfg, x))) /\ UNCHANGED issued

\* a direct call of append_fds on the record
AppendFds ==
    /\ CanChain
    /\ \E x \in {<<>>} \cup Range(AppendCases) :
        LET r == append_fds(cfg, x)
        IN /\ Chain("append_fds", x, Ok(r.cfg))
           /\ issued' = issued \o r.int_fds

\* add_incoming calls append_fds(&[incoming.fd]) in its "fd" arm only
AddIncoming ==
    /\ CanChain
    /\ \E x \in {DefaultIncoming} \cup Range(IncomingCases) :
        /\ Chain("add_incoming", x, Ok(add_incoming(cfg, x)))
        /\ issued' = IF x.migration_type = MIGRATION_FD
                     THEN issued \o append_fds(cfg, <<x.fd>>).int_fds
                     ELSE issued

AddPflashParam ==
    /\ CanChain
    /\ \E x \in {<<>>} \cup Range(PflashCases) :
        Chain("add_pflash_param", x, Ok(add_pflash_param(cfg, x))) /\ UNCHANGED issued

AddPidFile ==
    /\ CanChain
    /\ \E x \in {""} \cup Range(PidFileCases) :
        Chain("add_pid_file", x, Ok(add_pid_file(cfg, x))) /\ UNCHANGED issued

AddLogFile ==
    /\ CanChain
    /\ \E x \in {""} \cup Range(LogFileCases) :
        Chain("add_log_file", x, Ok(add_log_file(cfg, x))) /\ UNCHANGED issued

AddFwcfg ==
    /\ CanChain
    /\ \E x \in {<<>>} \cup Range(FwCfgCases) :
        Chain("add_fwcfg", x, Ok(add_fwcfg(cfg, x))) /\ UNCHANGED issued

\* add_smp over every SMP with fields in 0..MaxCpus
AddSmpAny ==
    /\ CanChain /\ nops < 1
    /\ \E x \in [cpus : 0..MaxCpus, cores : 0..MaxCpus, threads : 0..MaxCpus,
              sockets : 0..MaxCpus, max_cpus : 0..MaxCpus] :
        /\ Chain("add_smp", x, add_smp(cfg, x))
        /\ UNCHANGED issued

\* variant: build_all works on the receiver itself and leaves it compiled
Run_in_place(on, recv) ==
    \E uuid \in FreshUuids :
        LET r == build_all(recv, uuid)
        IN /\ runs' = Append(runs, [on |-> on, recv |-> recv, uuid |-> uuid,
                                    outcome |-> r.outcome, cfg |-> r.cfg])
           /\ cfg' = IF on = "base" THEN r.cfg ELSE cfg
           /\ UNCHANGED <<arch, last, nops, issued, qemu>>

\* one call recv.build_all(); on says which record recv is
Run(on, recv) ==
    \E uuid \in FreshUuids :
        LET r == build_all(recv, uuid)
        IN /\ runs' = Append(runs, [on |-> on, recv |-> recv, uuid |-> uuid,
                                    outcome |-> r.outcome, cfg |-> r.cfg])
           /\ UNCHANGED <<cfg, arch, last, nops, issued, qemu>>

\* the first compilation of the loaded record
BuildAll == Live /\ runs = <<>> /\ Run("base", cfg)

\* build_all called on the record the first build_all returned
Recompile == Live /\ Len(runs) = 1 /\ Run("result", runs[1].cfg)

\* build_all called once more on the same base record
Rebuild == Live /\ Len(runs) = 1 /\ Run("base", cfg)

\* let config = config.build_all(): build_all as one more step of a chain,
\* its result replacing the record the caller holds
ChainBuildAll ==
    /\ CanChain
    /\ \E uuid \in FreshUuids :
        /\ Chain("build_all", uuid, build_all(cfg, uuid))
        /\ issued' = IF cfg.incoming.migration_type = MIGRATION_FD
                     THEN issued \o append_fds(cfg, <<cfg.incoming.fd>>).int_fds
                     ELSE issued

\* let cfg = cfg.clone()
CloneRecord ==
    /\ CanChain
    /\ Chain("clone", <<>>, Ok(clone(cfg)))
    /\ UNCHANGED issued

\* add_knobs over every setting of the memory knobs and mlock
AddKnobsAny ==
    /\ CanChain /\ nops < 1
    /\ \E hp \in BOOLEAN, fb \in BOOLEAN, sh \in BOOLEAN, pr \in BOOLEAN,
          ml \in BOOLEAN :
        LET x == [DefaultKnobs EXCEPT !.hugepages = hp, !.file_backed_mem = fb,
                                      !.mem_shared = sh, !.mem_prealloc = pr,
                                      !.mlock = ml]
        IN /\ Chain("add_knobs", x, Ok(add_knobs(cfg, x)))
           /\ UNCHANGED issued

\* Qemu::from_config(cfg): the record is consumed, build_all is called on it
FromConfig ==
    /\ Live /\ runs = <<>> /\ ~qemu.built
    /\ \E uuid \in FreshUuids :
        LET b == build_all(cfg, uuid)
        IN /\ qemu' = from_config(cfg, uuid).qemu
           /\ runs' = Append(runs, [on |-> "base", recv |-> cfg, uuid |-> uuid,
                                    outcome |-> b.outcome, cfg |-> b.cfg])
           /\ UNCHANGED <<cfg, arch, last, nops, issued>>

\* qemu.launch(), with what the operating system answers to spawn; the
\* caller may call it again after it returned
Launch ==
    /\ qemu.built /\ Len(qemu.launches) < MaxLaunches
    /\ \A i \in 1..Len(qemu.launches) : qemu.launches[i].outcome # "panic"
    /\ \E found \in BOOLEAN : qemu' = launch(qemu, found)
    /\ UNCHANGED <<cfg, arch, last, nops, issued, runs>>

Init == InitWith(ChainDocs)

Next ==
    \/ AddSeccomp \/ AddName \/ AddMachine \/ AddCpuModel \/ AddDevices
    \/ AddUuid \/ AddMemory \/ AddSmp \/ AddGlobalParams \/ AddKernel
    \/ AddBios \/ AddNoGraphic \/ AddRtc \/ AddQmpSockets \/ AddVga
    \/ AddKnobs \/ AddIoThreads \/ AppendFds \/ AddIncoming
    \/ AddPflashParam \/ AddPidFile \/ AddLogFile \/ AddFwcfg
    \/ ChainBuildAll

\* builder chains: up to MaxOps add operations on one record
Spec == Init /\ [][Next]_vars

InitBuild == InitWith(TomlDocs)

NextBuild == BuildAll \/ Recompile \/ Rebuild

\* compilation: build_all on a loaded record, then a second build_all
SpecBuild == InitBuild /\ [][NextBuild]_vars

InitSmp == InitWith({<<>>, [qemu_params |-> 1]})

NextSmp == AddSmpAny

\* add_smp alone, over every SMP within the bound
SpecSmp == InitSmp /\ [][NextSmp]_vars

InitKnobs == InitWith(KnobDocs)

NextKnobs == AddKnobsAny

\* add_knobs alone, over every memory-knob setting and memory/machine field
SpecKnobs == InitKnobs /\ [][NextKnobs]_vars

\* a record that owns devices: the devices field is filled by code of the
\* crate (the field is private and skipped by the deserializer)
InitDev ==
    /\ \E doc \in SmallDocs, devices \in {<<>>} \cup Range(DeviceCases) :
        cfg = [from_toml(doc) EXCEPT !.devices = devices]
    /\ arch \in Archs
    /\ last = NoOp
    /\ nops = 0
    /\ issued = <<>>
    /\ runs = <<>>
    /\ qemu = NoQemu

NextDev == CloneRecord \/ AddDevices \/ BuildAll \/ Recompile

\* records with devices: cloned, given devices again, compiled
SpecDev == InitDev /\ [][NextDev]_vars

InitLaunch ==
    /\ \E doc \in SmallDocs, bin_path \in {""} \cup Range(BinPathCases) :
        cfg = [from_toml(doc) EXCEPT !.bin_path = bin_path]
    /\ arch \in Archs
    /\ last = NoOp
    /\ nops = 0
    /\ issued = <<>>
    /\ runs = <<>>
    /\ qemu = NoQemu

NextLaunch == FromConfig \/ Launch

\* the launch flow of examples/launch.rs: from_config, then launch
SpecLaunch == InitLaunch /\ [][NextLaunch]_vars

-----------------------------------------------------------------------------
(* Vocabulary of the properties *)

\* the tokens the last chain operation appended to its receiver's sequence
Added == Suffix(cfg.qemu_params, Len(last.pre.qemu_params))

\* it appended toks and changed nothing else about the sequence
Appended(toks) == cfg.qemu_params = last.pre.qemu_params \o toks

Did(op) == last.op = op

\* the runs that returned a record
OkRuns == {i \in 1..Len(runs) : runs[i].outcome = "ok"}

\* what one domain operation pushes when applied to recv's clone with an
\* empty output buffer
Blank(recv) == [clone(recv) EXCEPT !.qemu_params = <<>>]

\* number of positions of seq that hold tok
Count(seq, tok) == Cardinality({i \in 1..Len(seq) : seq[i] = tok})

-----------------------------------------------------------------------------
(* C1: when build_all completes, the returned sequence is the receiver's   *)
(* own qemu_params followed by the contributions of cpu model, bios,       *)
(* kernel, machine, memory, name, seccomp, uuid, no-graphic, RTC, QMP      *)
(* sockets, VGA, IO threads, incoming, pflash, pidfile, logfile, global    *)
(* params, knobs, SMP and devices, concatenated in exactly that order.     *)

C1_Contributions(recv, uuid) ==
    LET b == Blank(recv)
    IN <<add_cpu_model(b, recv.cpu_model).qemu_params,
         add_bios(b, recv.bios).qemu_params,
         add_kernel(b, recv.kernel).qemu_params,
         add_machine(b, recv.machine).qemu_params,
         add_memory(b, recv.memory).qemu_params,
         add_name(b, recv.name).qemu_params,
         add_seccomp(b, recv.seccomp_sandbox).qemu_params,
         add_uuid(b, uuid).qemu_params,
         add_no_graphic(b, recv.no_graphic).qemu_params,
         add_rtc(b, recv.rtc).qemu_params,
         add_qmp_sockets(b, recv.qmp_sockets).qemu_params,
         add_vga(b, recv.vga).qemu_params,
         add_io_threads(b, recv.io_threads).qemu_params,
         add_incoming(b, recv.incoming).qemu_params,
         add_pflash_param(b, recv.pflashs).qemu_params,
         add_pid_file(b, recv.pid_file).qemu_params,
         add_log_file(b, recv.log_file).qemu_params,
         add_global_params(b, recv.global_params).qemu_params,
         add_knobs(b, recv.knobs).qemu_params,
         add_smp(b, recv.smp).cfg.qemu_params,
         add_devices(b, recv.devices).cfg.qemu_params>>

RECURSIVE Flatten(_)
Flatten(seqs) == IF seqs = <<>> THEN <<>> ELSE Head(seqs) \o Flatten(Tail(seqs))

C1_BuildOrder ==
    \A i \in OkRuns :
        runs[i].cfg.qemu_params =
            runs[i].recv.qemu_params
            \o Flatten(C1_Contributions(runs[i].recv, runs[i].uuid))

\* the fully populated document compiled: all twenty scalar domains emit
C1_Witness ==
    /\ runs # <<>>
    /\ runs[1].outcome = "ok"
    /\ runs[1].recv = from_toml(FullDoc)
    /\ \A k \in 1..20 :
           C1_Contributions(runs[1].recv, runs[1].uuid)[k] # <<>>

-----------------------------------------------------------------------------
(* C2: build_all is not idempotent.  As claimed: build_all on a record     *)
(* that build_all returned yields the first sequence followed by a second  *)
(* copy of it, so twice its length and the same contents in order.         *)

C2_Original ==
    (Len(runs) = 2 /\ runs[2].on = "result" /\ runs[2].outcome = "ok") =>
        LET p1 == runs[1].cfg.qemu_params
            p2 == runs[2].cfg.qemu_params
        IN /\ IsPrefix(p1, p2)
           /\ Len(p2) = 2 * Len(p1)
           /\ Suffix(p2, Len(p1)) = p1

(* C2 as amended: the second sequence starts with the whole first one and  *)
(* then repeats what the first compilation appended to the base record's   *)
(* qemu_params, token for token, except the value after -uuid (drawn anew  *)
(* by each call) and the URI after -incoming (fd:<offset> is one higher,   *)
(* the descriptor table being carried over).  Its length is                *)
(* 2 * first - base, twice the first only when the base had no tokens.     *)

C2_Amended ==
    (Len(runs) = 2 /\ runs[2].on = "result" /\ runs[2].outcome = "ok") =>
        LET p0 == runs[1].recv.qemu_params
            p1 == runs[1].cfg.qemu_params
            p2 == runs[2].cfg.qemu_params
            n == Len(p1) - Len(p0)
        IN /\ IsPrefix(p1, p2)
           /\ Len(p2) = Len(p1) + n
           /\ \A k \in 1..n :
                LET old == p1[Len(p0) + k]
                    new == p2[Len(p1) + k]
                    flag == IF k > 1 THEN p1[Len(p0) + k - 1] ELSE ""
                IN \/ new = old
                   \/ flag = "-uuid" /\ old = runs[1].uuid /\ new = runs[2].uuid
                   \/ /\ flag = "-incoming"
                      /\ old = "fd:" \o ToString(Len(runs[1].recv.fds) + 3)
                      /\ new = "fd:" \o ToString(Len(runs[1].recv.fds) + 4)

\* a recompilation where the base had tokens, the uuid changed and a
\* descriptor was consumed
C2_Witness ==
    /\ Len(runs) = 2 /\ runs[2].on = "result" /\ runs[2].outcome = "ok"
    /\ runs[1].recv.qemu_params # <<>>
    /\ runs[1].recv.incoming.migration_type = MIGRATION_FD
    /\ runs[1].uuid # runs[2].uuid
    /\ Len(runs[2].cfg.qemu_params) > Len(runs[1].cfg.qemu_params)

-----------------------------------------------------------------------------
(* C3: with smp.cpus > 0 and 0 < smp.max_cpus < smp.cpus, build_all fails  *)
(* with an error value returned to its caller, not an abort, and returns   *)
(* no record.                                                              *)

C3_ErrorReturned ==
    \A i \in 1..Len(runs) :
        LET smp == runs[i].recv.smp
        IN (smp.cpus > 0 /\ 0 < smp.max_cpus /\ smp.max_cpus < smp.cpus)
           => runs[i].outcome = "err"

-----------------------------------------------------------------------------
(* C4: the -smp pair.  As claimed: every SMP with cpus > 0 that passes the *)
(* max_cpus check makes add_smp append "-smp" and one value token, and     *)
(* {cpus: 2, cores: 1, threads: 1, sockets: 2, max_cpus: 4} succeeds and   *)
(* emits -smp 2,cores=1,threads=1,sockets=2,maxcpus=4.                     *)

\* ",key=<n>" for a nonzero field, nothing for a zero one
C4_Opt(key, n) == IF n = 0 THEN "" ELSE "," \o key \o "=" \o ToString(n)

C4_Value(smp) ==
    ToString(smp.cpus) \o C4_Opt("cores", smp.cores) \o C4_Opt("threads", smp.threads)
    \o C4_Opt("sockets", smp.sockets) \o C4_Opt("maxcpus", smp.max_cpus)

C4_Example == [cpus |-> 2, cores |-> 1, threads |-> 1, sockets |-> 2, max_cpus |-> 4]

C4_Original ==
    (Did("add_smp") /\ last.arg = C4_Example) =>
        /\ last.outcome = "ok"
        /\ Appended(<<"-smp", "2,cores=1,threads=1,sockets=2,maxcpus=4">>)

(* C4 as amended: add_smp returns Ok for cpus > 0 exactly when max_cpus is *)
(* 0 or >= cpus and sockets * cores * threads = max_cpus; it then appends  *)
(* exactly "-smp" and one value token: cpus, then cores=, threads=,        *)
(* sockets=, maxcpus= for the nonzero fields, comma-joined.  The SMP       *)
(* {2, 1, 1, 2, max_cpus 4} fails the product assertion (1*1*2 # 4);       *)
(* {2, 1, 1, 2, max_cpus 2} emits -smp 2,cores=1,threads=1,sockets=2,      *)
(* maxcpus=2.                                                              *)

C4_Amended ==
    (Did("add_smp") /\ last.arg.cpus > 0) =>
        LET smp == last.arg
        IN /\ last.outcome = "ok" <=>
                /\ smp.max_cpus = 0 \/ smp.max_cpus >= smp.cpus
                /\ smp.sockets * smp.cores * smp.threads = smp.max_cpus
           /\ last.outcome = "ok" => Appended(<<"-smp", C4_Value(smp)>>)
           /\ smp = C4_Example => last.outcome = "panic"
           /\ smp = [C4_Example EXCEPT !.max_cpus = 2] =>
                Appended(<<"-smp", "2,cores=1,threads=1,sockets=2,maxcpus=2">>)

C4_Witness ==
    /\ Did("add_smp")
    /\ last.arg = [C4_Example EXCEPT !.max_cpus = 2]
    /\ last.outcome = "ok"
    /\ Len(Added) = 2

-----------------------------------------------------------------------------
(* C5: a domain whose key field is empty contributes nothing: add_machine  *)
(* with an empty machine_type, add_memory with an empty size, add_smp with *)
(* cpus = 0 (Ok, whatever the other fields), add_kernel with an empty path *)
(* (whatever initrd_path and params) return qemu_params unchanged.         *)

C5_EmptyKey ==
    \/ Did("add_machine") /\ last.arg.machine_type = ""
    \/ Did("add_memory") /\ last.arg.size = ""
    \/ Did("add_smp") /\ last.arg.cpus = 0
    \/ Did("add_kernel") /\ last.arg.path = ""

C5_EmptyKeyEmitsNothing ==
    C5_EmptyKey => last.outcome = "ok" /\ cfg.qemu_params = last.pre.qemu_params

\* add_kernel with no path but an initrd and boot parameters
C5_Witness ==
    /\ Did("add_kernel")
    /\ last.arg.path = "" /\ last.arg.initrd_path # "" /\ last.arg.params # ""
    /\ cfg.qemu_params = last.pre.qemu_params

-----------------------------------------------------------------------------
(* C6: add_incoming appends -S, -incoming, exec:<command> for "exec";      *)
(* for "fd" it takes one descriptor slot and appends -S, -incoming,        *)
(* fd:<offset>; for "defer" it appends -S, -incoming, defer; for any other *)
(* type it appends nothing and leaves the descriptor table alone.  With    *)
(* fd 7 as the first descriptor of the table the URI is fd:3.              *)

C6_IncomingCases ==
    Did("add_incoming") =>
        LET inc == last.arg
            pre == last.pre
        IN /\ last.outcome = "ok"
           /\ inc.migration_type = "exec" =>
                /\ Appended(<<"-S", "-incoming", "exec:" \o inc.exec>>)
                /\ cfg.fds = pre.fds
           /\ inc.migration_type = "fd" =>
                /\ Appended(<<"-S", "-incoming", "fd:" \o ToString(Len(pre.fds) + 3)>>)
                /\ cfg.fds = pre.fds \o <<inc.fd>>
                /\ (pre.fds = <<>> /\ inc.fd = 7) => Added[3] = "fd:3"
           /\ inc.migration_type = "defer" =>
                /\ Appended(<<"-S", "-incoming", "defer">>)
                /\ cfg.fds = pre.fds
           /\ inc.migration_type \notin {"exec", "fd", "defer"} =>
                /\ Added = <<>>
                /\ cfg.fds = pre.fds

C6_Witness ==
    /\ Did("add_incoming")
    /\ last.arg.migration_type = "fd" /\ last.arg.fd = 7
    /\ last.pre.fds = <<>>
    /\ Added = <<"-S", "-incoming", "fd:3">>

-----------------------------------------------------------------------------
(* C7: the descriptor appended at table position k (from 0) is given the   *)
(* offset k + 3 whatever its raw value, so on a table that starts empty    *)
(* the k-th descriptor appended gets k + 3; the table only grows; and no   *)
(* offset is returned twice.                                               *)

-----------------------------------------------------------------------------
(* C8: with the record's memory.size set, add_knobs emits exactly one      *)
(* -object pair, directly followed by exactly one binding pair: -numa      *)
(* node,memdev=dimm1 when the architecture is in the allow-list and the    *)
(* machine type is not microvm, else -machine memory-backend=dimm1.  With  *)
(* size 2G, hugepages and mem_shared the object is                         *)
(* memory-backend-file,id=dimm1,size=2G,mem-path=/dev/hugepages,share=on.  *)

C8_Binding ==
    IF arch \in {"x86_64", "powerpc64", "aarch64", "x86"}
       /\ last.pre.machine.machine_type # "microvm"
    THEN <<"-numa", "node,memdev=dimm1">>
    ELSE <<"-machine", "memory-backend=dimm1">>

C8_MemoryKnobs ==
    (Did("add_knobs") /\ last.pre.memory.size # "") =>
        /\ Count(Added, "-object") = 1
        /\ Count(Added, "-numa") + Count(Added, "-machine") = 1
        /\ \E i \in 1..Len(Added) :
            /\ Added[i] = "-object"
            /\ i + 3 <= Len(Added)
            /\ SubSeq(Added, i + 2, i + 3) = C8_Binding
            /\ (/\ last.pre.memory.size = "2G"
                /\ last.arg.hugepages /\ last.arg.mem_shared
                /\ ~last.arg.mem_prealloc)
               => Added[i + 1] =
                    "memory-backend-file,id=dimm1,size=2G,mem-path=/dev/hugepages,share=on"

\* the microvm case on a supported architecture
C8_Witness ==
    /\ Did("add_knobs")
    /\ arch = "x86_64"
    /\ last.pre.machine.machine_type = "microvm"
    /\ last.pre.memory.size = "2G"
    /\ last.arg.hugepages /\ last.arg.mem_shared /\ ~last.arg.mem_prealloc
    /\ Added = <<"-object",
                 "memory-backend-file,id=dimm1,size=2G,mem-path=/dev/hugepages,share=on",
                 "-machine", "memory-backend=dimm1">>

-----------------------------------------------------------------------------
(* C9: add_rtc contributes iff clock is host, rt or vm and drift_fix is    *)
(* slew or none; then its value token is                                   *)
(* base=<base>,driftfix=<drift_fix>,clock=<clock>; otherwise qemu_params   *)
(* is unchanged and no error is raised.                                    *)

C9_Rtc ==
    Did("add_rtc") =>
        LET rtc == last.arg
        IN /\ last.outcome = "ok"
           /\ IF rtc.clock \in {"host", "rt", "vm"} /\ rtc.drift_fix \in {"slew", "none"}
              THEN Appended(<<"base=" \o rtc.base \o ",driftfix=" \o rtc.drift_fix
                              \o ",clock=" \o rtc.clock>>)
              ELSE cfg.qemu_params = last.pre.qemu_params

C9_Witness ==
    /\ Did("add_rtc")
    /\ last.arg = [base |-> "utc", clock |-> "host", drift_fix |-> "slew"]
    /\ Added = <<"base=utc,driftfix=slew,clock=host">>

-----------------------------------------------------------------------------
(* C10: in every compiled sequence a value token directly follows the flag *)
(* token it belongs to: each value-carrying operation (rtc among them)     *)
(* pushes a flag starting with "-" and then its value.                     *)

\* the flag tokens the code pushes before a value
ValueFlags ==
    {"-sandbox", "-name", "-machine", "-cpu", "-uuid", "-m", "-smp", "-global",
     "-kernel", "-initrd", "-append", "-bios", "-qmp", "-vga", "-object", "-numa",
     "-overcommit", "-incoming", "-pflash", "-pidfile", "-D", "-fw_cfg"}

\* the flag tokens that stand alone
SwitchFlags ==
    {"-nographic", "-no-user-config", "--no-reboot", "-nodefaults",
     "--no-shutdown", "-daemonize", "-S"}

\* in seq, every token that is not a flag directly follows a value flag,
\* and every value flag is directly followed by a token that is not a flag
FlagsThenValues(seq) ==
    \A i \in 1..Len(seq) :
        /\ seq[i] \notin ValueFlags \cup SwitchFlags =>
                i > 1 /\ seq[i - 1] \in ValueFlags
        /\ seq[i] \in ValueFlags =>
                i < Len(seq) /\ seq[i + 1] \notin ValueFlags \cup SwitchFlags

C10_FlagBeforeValue ==
    \A i \in OkRuns :
        FlagsThenValues(Suffix(runs[i].cfg.qemu_params, Len(runs[i].recv.qemu_params)))

-----------------------------------------------------------------------------
(* C11: among the operations of a chain only add_smp (and build_all,       *)
(* through add_smp) can fail; every other operation completes on every     *)
(* input.  In particular add_devices completes on every device list: an    *)
(* invalid device is skipped, a valid one appends its fragment; invalid    *)
(* QMP sockets and FwCfg entries are skipped without error.                *)

C11_OnlySmpFails ==
    /\ last.outcome # "ok" => last.op \in {"add_smp", "build_all"}
    /\ Did("add_devices") =>
          /\ last.outcome = "ok"
          /\ IsPrefix(last.pre.qemu_params, cfg.qemu_params)

-----------------------------------------------------------------------------
(* C12: a build_all whose other domains compile returns a sequence in      *)
(* which the fragments of the receiver's own devices, in list order, come  *)
(* after every token of the other domains: the returned sequence extends   *)
(* the one the same record compiles to without its devices, and the        *)
(* devices are those of the receiver, not of its device-less clone.        *)

\* what recv compiles to when its device list is left out
C12_Scalar(recv, uuid) == build_all([recv EXCEPT !.devices = <<>>], uuid)

-----------------------------------------------------------------------------
(* C13: the clone of a record has an empty device list and every other     *)
(* field, qemu_params and the descriptor table included, equal to the      *)
(* original's; so a record returned by build_all owns no devices, and a    *)
(* later build_all on it is a compilation without devices.                 *)

C13_CloneDropsDevices ==
    /\ Did("clone") =>
          /\ last.outcome = "ok"
          /\ cfg.devices = <<>>
          /\ DOMAIN cfg = DOMAIN last.pre
          /\ \A f \in DOMAIN cfg \ {"devices"} : cfg[f] = last.pre[f]
    /\ \A i \in OkRuns : runs[i].cfg.devices = <<>>
    /\ \A i \in 1..Len(runs) :
          runs[i].on = "result" => runs[i].recv.devices = <<>>

\* a record with devices, emitted tokens and descriptors has been cloned
C13_Witness ==
    /\ Did("clone")
    /\ last.pre.devices = <<"Object", "FSDevice">>
    /\ last.pre.qemu_params # <<>>
    /\ last.pre.fds # <<>>
    /\ cfg.devices = <<>>

-----------------------------------------------------------------------------
(* C14: every launch() call returns to its caller, with Ok when the        *)
(* process was spawned and with an error value when the binary cannot be   *)
(* found or executed; it never aborts, it leaves bin_path and args of the  *)
(* launcher as they were, and it does not wait for the spawned process.    *)

C14_SpawnErrorReturned ==
    \A i \in 1..Len(qemu.launches) :
        LET call == qemu.launches[i]
        IN /\ call.outcome \in {"ok", "err"}
           /\ qemu.bin_path = call.bin_path
           /\ qemu.args = call.args
           /\ ~call.waited

-----------------------------------------------------------------------------
(* C15: qemu_params is append-only: for every add operation, and for       *)
(* build_all as a whole, that completes, the qemu_params of the record it  *)
(* was called on is a prefix of the qemu_params of the record it returns.  *)

C15_AppendOnly ==
    (last.op # "none" /\ last.outcome = "ok") =>
        IsPrefix(last.pre.qemu_params, cfg.qemu_params)

\* build_all has extended a sequence an earlier add operation had started
C15_Witness ==
    /\ nops = 2
    /\ Did("build_all") /\ last.outcome = "ok"
    /\ last.pre.qemu_params = <<"-enable-kvm", "-m", "2G">>
    /\ Len(cfg.qemu_params) > 3

-----------------------------------------------------------------------------
(* C16: the product check of add_smp applies only when sockets, cores and  *)
(* threads are all nonzero.  For cpus > 0 and max_cpus >= cpus: with one   *)
(* of the three at 0 (e.g. cpus 2, max_cpus 4, the rest 0) add_smp         *)
(* succeeds and appends the -smp pair; with all three nonzero it succeeds  *)
(* iff sockets * cores * threads = max_cpus.                               *)

C16_ProductWhenAllSet ==
    (Did("add_smp") /\ last.arg.cpus > 0 /\ last.arg.max_cpus >= last.arg.cpus) =>
        LET smp == last.arg
        IN IF smp.sockets > 0 /\ smp.cores > 0 /\ smp.threads > 0
           THEN last.outcome = "ok" <=>
                    smp.sockets * smp.cores * smp.threads = smp.max_cpus
           ELSE /\ last.outcome = "ok"
                /\ Appended(<<"-smp", C4_Value(smp)>>)

-----------------------------------------------------------------------------
(* C17: the backend object of add_knobs is chosen by precedence: with      *)
(* hugepages the /dev/hugepages spec, even when file_backed_mem and a      *)
(* memory.path are set; else with file_backed_mem and a non-empty          *)
(* memory.path the spec carrying that path; else the plain sized spec.     *)
(* ",share=on" follows iff mem_shared, then ",prealloc=on" iff             *)
(* mem_prealloc.  With an empty memory.size no backend token is emitted;   *)
(* mlock emits -overcommit mem-lock=on whether or not memory.size is set.  *)

C17_Backend(knobs, memory) ==
    "memory-backend-file,id=dimm1,size=" \o memory.size
    \o (IF knobs.hugepages THEN ",mem-path=/dev/hugepages"
        ELSE IF knobs.file_backed_mem /\ memory.path # ""
             THEN ",mem_path=" \o memory.path
             ELSE "")
    \o (IF knobs.mem_shared THEN ",share=on" ELSE "")
    \o (IF knobs.mem_prealloc THEN ",prealloc=on" ELSE "")

\* the positions of seq where the pair <<flag, value>> starts
C17_Pairs(seq, flag, value) ==
    {i \in 1..(Len(seq) - 1) : seq[i] = flag /\ seq[i + 1] = value}

C17_Precedence ==
    Did("add_knobs") =>
        LET knobs == last.arg
            memory == last.pre.memory
        IN /\ memory.size = "" =>
                /\ Count(Added, "-object") = 0
                /\ Count(Added, "-numa") = 0
                /\ Count(Added, "-machine") = 0
           /\ memory.size # "" =>
                /\ Count(Added, "-object") = 1
                /\ Cardinality(C17_Pairs(Added, "-object",
                                         C17_Backend(knobs, memory))) = 1
           /\ Cardinality(C17_Pairs(Added, "-overcommit", "mem-lock=on"))
                = IF knobs.mlock THEN 1 ELSE 0

\* hugepages wins over file_backed_mem with a path; both suffixes, and mlock
C17_Witness ==
    /\ Did("add_knobs")
    /\ last.arg.hugepages /\ last.arg.file_backed_mem
    /\ last.arg.mem_shared /\ last.arg.mem_prealloc /\ last.arg.mlock
    /\ last.pre.memory.size = "2G" /\ last.pre.memory.path = "/dev/shm"
    /\ Added[2] = "memory-backend-file,id=dimm1,size=2G,mem-path=/dev/hugepages,share=on,prealloc=on"
    /\ SubSeq(Added, 5, 6) = <<"-overcommit", "mem-lock=on">>

-----------------------------------------------------------------------------
(* C18: the -uuid pair is emitted only for a non-nil identifier: add_uuid  *)
(* with the nil UUID leaves qemu_params unchanged, add_uuid with another   *)
(* identifier appends -uuid <id>, and a record whose uuid field is empty   *)
(* compiles (build_all) to a sequence with no -uuid token.                 *)

C18_UuidOmitted ==
    /\ Did("add_uuid") =>
          IF last.arg = NilUuid
          THEN cfg.qemu_params = last.pre.qemu_params
          ELSE Appended(<<"-uuid", last.arg>>)
    /\ (Did("build_all") /\ last.outcome = "ok" /\ last.pre.uuid = "") =>
          Count(Added, "-uuid") = 0

-----------------------------------------------------------------------------
(* C19: build_all leaves its receiver as it was: after the call the base   *)
(* record has the qemu_params, descriptor table, devices and domain fields *)
(* it had before.  So two build_all calls on the same base record have the *)
(* same outcome and return sequences of equal length that agree at every   *)
(* position but the value after -uuid; a base record with fd migration and *)
(* an empty descriptor table yields fd:3 in both.                          *)

\* the build_all calls made on the base record
C19_BaseRuns == {i \in 1..Len(runs) : runs[i].on = "base"}

\* s and t differ at most in the value that follows -uuid
C19_SameButUuid(s, t) ==
    /\ Len(s) = Len(t)
    /\ \A k \in 1..Len(s) :
          \/ s[k] = t[k]
          \/ k > 1 /\ s[k - 1] = "-uuid" /\ t[k - 1] = "-uuid"

-----------------------------------------------------------------------------
(* C20: add_memory and add_machine append tokens and leave the stored      *)
(* memory and machine fields as they were; the backend tokens of add_knobs *)
(* are fixed by its argument and the stored memory.size, memory.path and   *)
(* machine.machine_type, whatever tokens were emitted before.  So after    *)
(* add_memory(m) on a builder() record add_knobs(k) emits no -object,      *)
(* -numa or -machine token, and add_knobs contributes the same tokens      *)
(* before add_memory as after it.                                          *)

\* the backend tokens add_knobs owes to the stored fields of its receiver
C20_Backend ==
    IF last.pre.memory.size = "" THEN <<>>
    ELSE <<"-object", C17_Backend(last.arg, last.pre.memory)>> \o C8_Binding

\* the tokens of seq that belong to the memory backend
C20_BackendPart(seq) ==
    SelectSeq(seq, LAMBDA t : t \in {"-object", "-numa", "-machine",
                                     "node,memdev=dimm1", "memory-backend=dimm1",
                                     C17_Backend(last.arg, last.pre.memory)})

====
